---- MODULE Spec2Model ----
\* Model of the Alpha Vantage MCP adapter: the request gateway
\* (tools.py, make_alpha_request), the response formatters (tools.py, the
\* format functions) and the tool dispatch (server.py, handle_call_tool).
\*
\* Python values are tagged records; a Python str is a sequence of text
\* pieces (single characters where the code looks inside the string), and
\* an f-string is the concatenation of its pieces.
EXTENDS Integers, Sequences, FiniteSets, TLC

VARIABLES
    \* format_historical_options called on its own
    opt_pc, options_data, limit, sort_by, sort_order, formatted_options,
    \* make_alpha_request called on its own: its arguments, the query
    \* parameters it sent, what client.get produced, the number of GETs
    \* issued and what the call produced
    gw_pc, function, symbol, additional_params, params, response, gets, gw_result,
    \* one invocation of handle_call_tool: its arguments, where it stands,
    \* its HTTP client, the query parameters of the requests it issued, what
    \* the upstream produced and what the handler produced
    pc, name, arguments, client, requests, upstream, result,
    \* one of the format functions called on its own: which one, its
    \* argument and the string it returned
    fmt_pc, formatter, fmt_input, fmt_output,
    \* several invocations of handle_call_tool interleaved on the event
    \* loop: each invocation's position, the AsyncClient objects that are
    \* open and the number of AsyncClient objects constructed so far
    invocations, open_clients, constructed

opt_vars == <<opt_pc, options_data, limit, sort_by, sort_order, formatted_options>>
gw_vars == <<gw_pc, function, symbol, additional_params, params, response, gets, gw_result>>

h_vars == <<pc, name, arguments, client, requests, upstream, result>>

fmt_vars == <<fmt_pc, formatter, fmt_input, fmt_output>>

conc_vars == <<invocations, open_clients, constructed>>

vars == <<opt_vars, gw_vars, h_vars, fmt_vars, conc_vars>>

----------------------------------------------------------------------------
\* Python / JSON values

None == [t |-> "none"]
Str(s) == [t |-> "str", s |-> s]
Num(n) == [t |-> "num", n |-> n]
Dict(d) == [t |-> "dict", d |-> d]
List(l) == [t |-> "list", l |-> l]

\* marks a key left out of a mapping when a set of inputs is built
Missing == [t |-> "missing"]

\* the dict with no keys
EmptyMap == [k \in {} |-> None]

\* d.get(k, default) on a dict's mapping
Get(d, k, default) == IF k \in DOMAIN d THEN d[k] ELSE default

\* a test for None in place of the truth value: {} [] "" and 0 pass it
Truthy_NonNone(v) == v.t # "none"

\* Python truthiness: None, 0, "", {} and [] are falsy
Truthy(v) ==
    CASE v.t = "none" -> FALSE
      [] v.t = "num" -> v.n # 0
      [] v.t = "str" -> Len(v.s) > 0
      [] v.t = "dict" -> DOMAIN v.d # {}
      [] v.t = "list" -> Len(v.l) > 0

\* str(v) as spliced into an f-string, as text pieces
PyStr(v) ==
    CASE v.t = "none" -> <<"None">>
      [] v.t = "num" -> <<ToString(v.n)>>
      [] v.t = "str" -> v.s
      [] v.t = "dict" -> <<"{...}">>
      [] v.t = "list" -> <<"[...]">>

RECURSIVE Concat(_)
\* "".join(parts)
Concat(parts) ==
    IF parts = <<>> THEN <<>> ELSE Head(parts) \o Concat(Tail(parts))

Min(a, b) == IF a < b THEN a ELSE b
Max(a, b) == IF a > b THEN a ELSE b

\* s[:k], Python slice semantics (a negative k counts from the end)
PySlice(s, k) ==
    IF k >= 0 THEN SubSeq(s, 1, Min(k, Len(s)))
    ELSE SubSeq(s, 1, Max(Len(s) + k, 0))

----------------------------------------------------------------------------
\* Characters: code points order str comparison; digits parse as numbers

Ord(c) ==
    CASE c = "$" -> 36 [] c = "%" -> 37
      [] c = "0" -> 48 [] c = "1" -> 49 [] c = "5" -> 53 [] c = "9" -> 57
      [] c = "a" -> 97 [] c = "b" -> 98
      [] OTHER -> 63

IsDigit(c) == c \in {"0", "1", "5", "9"}

DigitVal(c) == Ord(c) - 48

RECURSIVE StrLess(_, _)
\* a < b on str: lexicographic by code point
StrLess(a, b) ==
    IF b = <<>> THEN FALSE
    ELSE IF a = <<>> THEN TRUE
    ELSE IF Head(a) # Head(b) THEN Ord(Head(a)) < Ord(Head(b))
    ELSE StrLess(Tail(a), Tail(b))

\* s.replace(c, '')
Remove(s, c) == SelectSeq(s, LAMBDA x : x # c)

RECURSIVE DigitsVal(_)
DigitsVal(s) ==
    IF s = <<>> THEN 0 ELSE 10 * DigitsVal(SubSeq(s, 1, Len(s) - 1)) + DigitVal(s[Len(s)])

\* float(s) on a str: raises ValueError unless s is a decimal number
FloatParses(s) == Len(s) > 0 /\ \A i \in 1..Len(s) : IsDigit(s[i])

----------------------------------------------------------------------------
\* tools.py: format_historical_options

NA == Str(<<"N/A">>)

\* what a formatter's try block produced: a returned text or a raised
\* exception with its message
Returned(v) == [raised |-> FALSE, value |-> v]
Raised(msg) == [raised |-> TRUE, exc |-> [kind |-> "exception", type |-> "Exception", msg |-> msg]]
RaisedExc(type, msg) == [raised |-> TRUE, exc |-> [kind |-> "exception", type |-> type, msg |-> msg]]

get_sort_key_Raw(contract, sortBy) ==
    LET value == Get(contract.d, sortBy, Num(0))
        stripped == Remove(Remove(value.s, "$"), "%")
    IN  IF value.t = "str" /\ FloatParses(stripped) THEN Num(DigitsVal(stripped)) ELSE value

\* get_sort_key: the sort_by value, as a float when float() accepts it; the
\* '$' and '%' signs are removed from a str before float() is tried, and
\* the except branch returns value as it then stands
get_sort_key(contract, sortBy) ==
    LET value == Get(contract.d, sortBy, Num(0))
        stripped == Remove(Remove(value.s, "$"), "%")
    IN  IF value.t = "str"
        THEN IF FloatParses(stripped) THEN Num(DigitsVal(stripped)) ELSE Str(stripped)
        ELSE value

\* a < b between two sort keys; Python defines it for float with float and
\* str with str only
Comparable(a, b) == a.t = b.t /\ a.t \in {"num", "str"}
KeyLess(a, b) == IF a.t = "num" THEN a.n < b.n ELSE StrLess(a.s, b.s)

Before_IgnoreReverse(x, y, sortBy, reverse) ==
    KeyLess(get_sort_key(x, sortBy), get_sort_key(y, sortBy))

\* x sorts strictly before y
Before(x, y, sortBy, reverse) ==
    IF reverse THEN KeyLess(get_sort_key(y, sortBy), get_sort_key(x, sortBy))
    ELSE KeyLess(get_sort_key(x, sortBy), get_sort_key(y, sortBy))

\* insert x behind every element it does not sort strictly before
InsertSorted(s, x, sortBy, reverse) ==
    LET p == Cardinality({i \in 1..Len(s) : ~Before(x, s[i], sortBy, reverse)})
    IN  SubSeq(s, 1, p) \o <<x>> \o SubSeq(s, p + 1, Len(s))

RECURSIVE Sorted(_, _, _)
\* sorted(chain, key=get_sort_key, reverse=reverse): a stable sort, also
\* when reversed
Sorted(chain, sortBy, reverse) ==
    IF chain = <<>> THEN <<>>
    ELSE InsertSorted(Sorted(SubSeq(chain, 1, Len(chain) - 1), sortBy, reverse),
                      chain[Len(chain)], sortBy, reverse)

\* sorted() raises TypeError when two of the keys cannot be compared
SortRaises(chain, sortBy) ==
    \E i, j \in 1..Len(chain) :
        /\ i < j
        /\ ~Comparable(get_sort_key(chain[i], sortBy), get_sort_key(chain[j], sortBy))

\* the lines appended for one displayed contract
ContractLines(contract) ==
    LET f(k) == PyStr(Get(contract.d, k, NA))
    IN  <<"Contract Details:\n">>
        \o <<"Contract ID: ">> \o f("contractID") \o <<"\n">>
        \o <<"Expiration: ">> \o f("expiration") \o <<"\n">>
        \o <<"Strike: $">> \o f("strike") \o <<"\n">>
        \o <<"Type: ">> \o f("type") \o <<"\n">>
        \o <<"Last: $">> \o f("last") \o <<"\n">>
        \o <<"Mark: $">> \o f("mark") \o <<"\n">>
        \o <<"Bid: $">> \o f("bid") \o <<" (Size: ">> \o f("bid_size") \o <<")\n">>
        \o <<"Ask: $">> \o f("ask") \o <<" (Size: ">> \o f("ask_size") \o <<")\n">>
        \o <<"Volume: ">> \o f("volume") \o <<"\n">>
        \o <<"Open Interest: ">> \o f("open_interest") \o <<"\n">>
        \o <<"IV: ">> \o f("implied_volatility") \o <<"\n">>
        \o <<"Delta: ">> \o f("delta") \o <<"\n">>
        \o <<"Gamma: ">> \o f("gamma") \o <<"\n">>
        \o <<"Theta: ">> \o f("theta") \o <<"\n">>
        \o <<"Vega: ">> \o f("vega") \o <<"\n">>
        \o <<"Rho: ">> \o f("rho") \o <<"\n">>
        \o <<"---\n">>

DisplayContracts_NoSentinel(sorted_chain, lim) == PySlice(sorted_chain, lim)

\* display_contracts: the whole sorted chain for limit -1, else its slice
DisplayContracts(sorted_chain, lim) ==
    IF lim = -1 THEN sorted_chain ELSE PySlice(sorted_chain, lim)

\* the trailing count of contracts left out
MoreSuffix(sorted_chain, lim) ==
    IF lim # -1 /\ Len(sorted_chain) > lim
    THEN <<"\n... and ", ToString(Len(sorted_chain) - lim), " more contracts">>
    ELSE <<>>

\* the body of the try block
OptionsBody(data, lim, sortBy, sortOrder) ==
    IF data.t # "dict" THEN Raised("object has no attribute 'get'")
    ELSE IF "Error Message" \in DOMAIN data.d
    THEN Returned(<<"Error: ">> \o PyStr(data.d["Error Message"]))
    ELSE LET options_chain == Get(data.d, "data", List(<<>>))
         IN  IF ~Truthy(options_chain)
             THEN Returned(<<"No options data available in the response">>)
             ELSE IF options_chain.t # "list" THEN Raised("object is not iterable")
             ELSE IF \E i \in 1..Len(options_chain.l) : options_chain.l[i].t # "dict"
             THEN Raised("object has no attribute 'get'")
             ELSE IF SortRaises(options_chain.l, sortBy)
             THEN Raised("'<' not supported between instances")
             ELSE IF lim.t # "num" THEN Raised("slice indices must be integers")
             ELSE LET sorted_chain == Sorted(options_chain.l, sortBy, sortOrder = "desc")
                      display == DisplayContracts(sorted_chain, lim.n)
                  IN  Returned(
                        <<"Historical Options Data:\n">>
                        \o <<"Status: ">> \o PyStr(Get(data.d, "message", NA)) \o <<"\n">>
                        \o <<"Sorted by: ", sortBy, " (", sortOrder, ")\n\n">>
                        \o Concat([i \in 1..Len(display) |-> ContractLines(display[i])])
                        \o MoreSuffix(sorted_chain, lim.n))

format_historical_options(data, lim, sortBy, sortOrder) ==
    LET r == OptionsBody(data, lim, sortBy, sortOrder)
    IN  IF r.raised THEN <<"Error formatting options data: ", r.exc.msg>> ELSE r.value



----------------------------------------------------------------------------
\* tools.py: format_quote, format_company_info, format_crypto_rate,
\* format_time_series

\* a lookup whose default is the empty string
Field_Blank(container, k) == PyStr(Get(container.d, k, Str(<<>>)))

\* container.get(k, 'N/A') spliced into the text
Field(container, k) == PyStr(Get(container.d, k, NA))

NoGet == Raised("object has no attribute 'get'")

QuoteBodyOf(quote_data) ==
    IF quote_data.t # "dict" THEN NoGet
    ELSE LET global_quote == Get(quote_data.d, "Global Quote", Dict(EmptyMap))
         IN  IF ~Truthy(global_quote)
             THEN Returned(<<"No quote data available in the response">>)
             ELSE IF global_quote.t # "dict" THEN NoGet
             ELSE Returned(
                    <<"Price: $">> \o Field(global_quote, "05. price") \o <<"\n">>
                    \o <<"Change: $">> \o Field(global_quote, "09. change") \o <<" (">>
                    \o Field(global_quote, "10. change percent") \o <<")\n">>
                    \o <<"Volume: ">> \o Field(global_quote, "06. volume") \o <<"\n">>
                    \o <<"High: $">> \o Field(global_quote, "03. high") \o <<"\n">>
                    \o <<"Low: $">> \o Field(global_quote, "04. low") \o <<"\n">>
                    \o <<"---">>)

format_quote(quote_data) ==
    LET r == QuoteBodyOf(quote_data)
    IN  IF r.raised THEN <<"Error formatting quote data: ", r.exc.msg>> ELSE r.value

CompanyBodyOf(overview_data) ==
    IF ~Truthy(overview_data)
    THEN Returned(<<"No company information available in the response">>)
    ELSE IF overview_data.t # "dict" THEN NoGet
    ELSE Returned(
           <<"Name: ">> \o Field(overview_data, "Name") \o <<"\n">>
           \o <<"Sector: ">> \o Field(overview_data, "Sector") \o <<"\n">>
           \o <<"Industry: ">> \o Field(overview_data, "Industry") \o <<"\n">>
           \o <<"Market Cap: $">> \o Field(overview_data, "MarketCapitalization") \o <<"\n">>
           \o <<"Description: ">> \o Field(overview_data, "Description") \o <<"\n">>
           \o <<"Exchange: ">> \o Field(overview_data, "Exchange") \o <<"\n">>
           \o <<"Currency: ">> \o Field(overview_data, "Currency") \o <<"\n">>
           \o <<"---">>)

format_company_info(overview_data) ==
    LET r == CompanyBodyOf(overview_data)
    IN  IF r.raised THEN <<"Error formatting company data: ", r.exc.msg>> ELSE r.value

CryptoBodyOf(crypto_data) ==
    IF crypto_data.t # "dict" THEN NoGet
    ELSE LET realtime_data == Get(crypto_data.d, "Realtime Currency Exchange Rate",
                                  Dict(EmptyMap))
         IN  IF ~Truthy(realtime_data)
             THEN Returned(<<"No exchange rate data available in the response">>)
             ELSE IF realtime_data.t # "dict" THEN NoGet
             ELSE Returned(
                    <<"From: ">> \o Field(realtime_data, "2. From_Currency Name") \o <<" (">>
                    \o Field(realtime_data, "1. From_Currency Code") \o <<")\n">>
                    \o <<"To: ">> \o Field(realtime_data, "4. To_Currency Name") \o <<" (">>
                    \o Field(realtime_data, "3. To_Currency Code") \o <<")\n">>
                    \o <<"Exchange Rate: ">> \o Field(realtime_data, "5. Exchange Rate")
                    \o <<"\n">>
                    \o <<"Last Updated: ">> \o Field(realtime_data, "6. Last Refreshed")
                    \o <<" ">> \o Field(realtime_data, "7. Time Zone") \o <<"\n">>
                    \o <<"Bid Price: ">> \o Field(realtime_data, "8. Bid Price") \o <<"\n">>
                    \o <<"Ask Price: ">> \o Field(realtime_data, "9. Ask Price") \o <<"\n">>
                    \o <<"---">>)

format_crypto_rate(crypto_data) ==
    LET r == CryptoBodyOf(crypto_data)
    IN  IF r.raised THEN <<"Error formatting cryptocurrency data: ", r.exc.msg>>
        ELSE r.value

\* a dict whose keys are kept in the order given (the order the provider
\* sent them in)
OrderedDict(keys, d) == [t |-> "dict", d |-> d, order |-> keys]

\* list(mapping.items()), as the list of keys in the mapping's order
Keys(mapping) ==
    IF "order" \in DOMAIN mapping THEN mapping.order
    ELSE CHOOSE q \in [1..Cardinality(DOMAIN mapping.d) -> DOMAIN mapping.d] :
            \A k \in DOMAIN mapping.d : \E i \in DOMAIN q : q[i] = k

\* the block appended for one date
DateBlock(date, values) ==
    <<"Date: ", date, "\n">>
    \o <<"Open: $">> \o Field(values, "1. open") \o <<"\n">>
    \o <<"High: $">> \o Field(values, "2. high") \o <<"\n">>
    \o <<"Low: $">> \o Field(values, "3. low") \o <<"\n">>
    \o <<"Close: $">> \o Field(values, "4. close") \o <<"\n">>
    \o <<"Volume: ">> \o Field(values, "5. volume") \o <<"\n">>
    \o <<"---\n">>

RECURSIVE JoinLines(_)
\* "\n".join(parts)
JoinLines(parts) ==
    IF Len(parts) = 0 THEN <<>>
    ELSE IF Len(parts) = 1 THEN parts[1]
    ELSE parts[1] \o <<"\n">> \o JoinLines(Tail(parts))

\* the number of most recent days rendered
ShownDays == 5

\* every date of the series, none cut off
ShownDates_All(time_series) == Keys(time_series)

\* list(time_series.items())[:5], by key
ShownDates(time_series) == PySlice(Keys(time_series), ShownDays)

TimeSeriesBodyOf(time_series_data) ==
    IF time_series_data.t # "dict" THEN NoGet
    ELSE LET time_series == Get(time_series_data.d, "Time Series (Daily)", Dict(EmptyMap))
             metadata == Get(time_series_data.d, "Meta Data", Dict(EmptyMap))
         IN  IF ~Truthy(time_series)
             THEN Returned(<<"No time series data available in the response">>)
             ELSE IF metadata.t # "dict" THEN NoGet
             ELSE IF time_series.t # "dict" THEN Raised("object has no attribute 'items'")
             ELSE LET dates == ShownDates(time_series)
                  IN  IF \E i \in 1..Len(dates) : time_series.d[dates[i]].t # "dict"
                      THEN NoGet
                      ELSE Returned(JoinLines(
                             << <<"Time Series Data for ">>
                                \o PyStr(Get(metadata.d, "2. Symbol", Str(<<"Unknown">>)))
                                \o <<" (Last Refreshed: ">>
                                \o PyStr(Get(metadata.d, "3. Last Refreshed", Str(<<"Unknown">>)))
                                \o <<")\n\n">> >>
                             \o [i \in 1..Len(dates) |->
                                    DateBlock(dates[i], time_series.d[dates[i]])]))

format_time_series(time_series_data) ==
    LET r == TimeSeriesBodyOf(time_series_data)
    IN  IF r.raised THEN <<"Error formatting time series data: ", r.exc.msg>> ELSE r.value

----------------------------------------------------------------------------
\* tools.py: make_alpha_request

\* API_KEY, read from the environment when the module is loaded
API_KEY == Str(<<"demo-key">>)

\* an exception of the given class, str(e) being msg
Exc(type, msg) == [kind |-> "exception", type |-> type, msg |-> msg]
\* an HTTP response; text is the body as received
Response(status, text) == [kind |-> "response", status_code |-> status, text |-> text]

Phrase == "API call frequency"
FrequencyNote == Str(<<"Thank you for using Alpha Vantage! Our standard ", Phrase,
                       " is 25 requests per day.">>)

\* body texts an upstream response may carry
EmptyObjectBody == "{}"
QuoteBody == "{\"Global Quote\": {\"05. price\": \"189.50\"}}"
ErrorBody == "{\"Error Message\": \"Invalid API call.\"}"
NoteBody == "{\"Note\": \"Thank you for using Alpha Vantage! Our standard API call frequency is 25 requests per day.\"}"
ErrorAndNoteBody == "{\"Error Message\": \"Invalid API call.\", \"Note\": \"Thank you for using Alpha Vantage! Our standard API call frequency is 25 requests per day.\"}"
OtherNoteBody == "{\"Note\": \"Welcome.\"}"
NumberNoteBody == "{\"Note\": 5}"
ListBody == "[]"
NamesListBody == "[\"Error Message\"]"
NumberBody == "5"
NullBody == "null"
StringBody == "\"maintenance\""
CompanyBody == "{\"Name\": \"Apple Inc\", \"Sector\": \"TECHNOLOGY\"}"
CryptoBody == "{\"Realtime Currency Exchange Rate\": {\"5. Exchange Rate\": \"64000\"}}"
TimeSeriesBody == "{\"Meta Data\": {\"2. Symbol\": \"AAPL\"}, \"Time Series (Daily)\": {\"2024-01-03\": {\"4. close\": \"184\"}, \"2024-01-02\": {\"4. close\": \"185\"}}}"
OptionsChainBody == "{\"message\": \"success\", \"data\": [{\"contractID\": \"C1\", \"strike\": \"105\"}, {\"contractID\": \"C2\", \"strike\": \"95\"}]}"
HtmlBody == "<html>Service Unavailable</html>"
EmptyBody == ""

\* response.json(): the value the body text parses to; text that is no JSON
\* has none in this table and json() raises
JsonTable ==
    (EmptyObjectBody :> Dict(EmptyMap))
    @@ (QuoteBody :> Dict([k \in {"Global Quote"} |->
                        Dict([k2 \in {"05. price"} |-> Str(<<"189.50">>)])]))
    @@ (ErrorBody :> Dict([k \in {"Error Message"} |-> Str(<<"Invalid API call.">>)]))
    @@ (NoteBody :> Dict([k \in {"Note"} |-> FrequencyNote]))
    @@ (ErrorAndNoteBody :>
          Dict([k \in {"Error Message", "Note"} |->
                  IF k = "Note" THEN FrequencyNote ELSE Str(<<"Invalid API call.">>)]))
    @@ (OtherNoteBody :> Dict([k \in {"Note"} |-> Str(<<"Welcome.">>)]))
    @@ (NumberNoteBody :> Dict([k \in {"Note"} |-> Num(5)]))
    @@ (ListBody :> List(<<>>))
    @@ (NamesListBody :> List(<<Str(<<"Error Message">>)>>))
    @@ (NumberBody :> Num(5))
    @@ (NullBody :> None)
    @@ (StringBody :> Str(<<"maintenance">>))
    @@ (CompanyBody :> Dict([Name |-> Str(<<"Apple Inc">>), Sector |-> Str(<<"TECHNOLOGY">>)]))
    @@ (CryptoBody :> Dict([k \in {"Realtime Currency Exchange Rate"} |->
                          Dict([k2 \in {"5. Exchange Rate"} |-> Str(<<"64000">>)])]))
    @@ (TimeSeriesBody :>
          Dict([k \in {"Meta Data", "Time Series (Daily)"} |->
                  IF k = "Meta Data"
                  THEN Dict([k2 \in {"2. Symbol"} |-> Str(<<"AAPL">>)])
                  ELSE OrderedDict(<<"2024-01-03", "2024-01-02">>,
                         [d \in {"2024-01-03", "2024-01-02"} |->
                             Dict([k2 \in {"4. close"} |->
                                     IF d = "2024-01-03" THEN Str(<<"184">>)
                                     ELSE Str(<<"185">>)])])]))
    @@ (OptionsChainBody :>
          Dict([message |-> Str(<<"success">>),
                data |-> List(<<Dict([contractID |-> Str(<<"C1">>),
                                      strike |-> Str(<<"1", "0", "5">>)]),
                                Dict([contractID |-> Str(<<"C2">>),
                                      strike |-> Str(<<"9", "5">>)])>>)]))

\* x in container, for the str x = <<piece>>
Contains(container, piece) ==
    CASE container.t = "dict" -> piece \in DOMAIN container.d
      [] container.t = "list" ->
            \E i \in 1..Len(container.l) : container.l[i] = Str(<<piece>>)
      [] container.t = "str" -> \E i \in 1..Len(container.s) : container.s[i] = piece
ContainsRaises(container) == container.t \in {"num", "none"}

CheckProviderFields_NoteFirst(data) ==
    IF data.t = "dict" /\ "Note" \in DOMAIN data.d /\ data.d["Note"].t = "str"
       /\ Contains(data.d["Note"], Phrase)
    THEN Returned(Str(<<"Rate limit warning: ">> \o PyStr(data.d["Note"])))
    ELSE IF data.t = "dict" /\ "Error Message" \in DOMAIN data.d
    THEN Returned(Str(<<"Alpha Vantage API error: ">> \o PyStr(data.d["Error Message"])))
    ELSE Returned(data)

\* the checks for Alpha Vantage's own error messages, then return data
CheckProviderFields(data) ==
    IF ContainsRaises(data)
    THEN RaisedExc("TypeError", "argument is not iterable")
    ELSE IF Contains(data, "Error Message")
    THEN IF data.t # "dict"
         THEN RaisedExc("TypeError", "indices must be integers")
         ELSE Returned(Str(<<"Alpha Vantage API error: ">> \o PyStr(data.d["Error Message"])))
    ELSE IF Contains(data, "Note")
    THEN IF data.t # "dict"
         THEN RaisedExc("TypeError", "indices must be integers")
         ELSE IF ContainsRaises(data.d["Note"])
         THEN RaisedExc("TypeError", "argument is not iterable")
         ELSE IF Contains(data.d["Note"], Phrase)
         THEN Returned(Str(<<"Rate limit warning: ">> \o PyStr(data.d["Note"])))
         ELSE Returned(data)
    ELSE Returned(data)

\* response.raise_for_status(), response.json() and the checks of the body
RaiseForStatusAndParse(resp) ==
    IF ~(200 <= resp.status_code /\ resp.status_code <= 299)
    THEN RaisedExc("HTTPStatusError", "status " \o ToString(resp.status_code))
    ELSE IF resp.text \notin DOMAIN JsonTable
    THEN RaisedExc("JSONDecodeError", "Expecting value: line 1 column 1 (char 0)")
    ELSE CheckProviderFields(JsonTable[resp.text])

AfterGet_NoStatusChecks(resp) == RaiseForStatusAndParse(resp)

\* the statements of the try block after client.get has returned a response
AfterGet(resp) ==
    IF resp.status_code = 429
    THEN Returned(Str(<<"Rate limit exceeded. Error details: ", resp.text>>))
    ELSE IF resp.status_code = 403
    THEN Returned(Str(<<"API key invalid or expired. Error details: ", resp.text>>))
    ELSE RaiseForStatusAndParse(resp)

\* the try block: client.get raises, or the statements after it run
TryBlock(outcome) ==
    IF outcome.kind = "exception" THEN [raised |-> TRUE, exc |-> outcome]
    ELSE AfterGet(outcome)

ExceptClauses_NoCatchAll(outcome, r) ==
    CASE ~r.raised -> r
      [] r.exc.type = "TimeoutException" ->
            Returned(Str(<<"Request timed out after 30 seconds. The Alpha Vantage API may be experiencing delays.">>))
      [] r.exc.type = "ConnectError" ->
            Returned(Str(<<"Failed to connect to Alpha Vantage API. Please check your internet connection.">>))
      [] r.exc.type = "HTTPStatusError" ->
            Returned(Str(<<"HTTP error occurred: ", r.exc.msg, " - Response: ", outcome.text>>))
      [] OTHER -> r

\* the except clauses, tried in order; outcome is what client.get produced
\* and r what the try block produced
ExceptClauses(outcome, r) ==
    CASE ~r.raised -> r
      [] r.exc.type = "TimeoutException" ->
            Returned(Str(<<"Request timed out after 30 seconds. The Alpha Vantage API may be experiencing delays.">>))
      [] r.exc.type = "ConnectError" ->
            Returned(Str(<<"Failed to connect to Alpha Vantage API. Please check your internet connection.">>))
      [] r.exc.type = "HTTPStatusError" ->
            Returned(Str(<<"HTTP error occurred: ", r.exc.msg, " - Response: ", outcome.text>>))
      [] OTHER -> Returned(Str(<<"Unexpected error occurred: ", r.exc.msg>>))

\* params: function, symbol and apikey, then additional_params merged over
\* them when it is given and not empty
BuildParams(fn, sym, extra) ==
    LET base == [function |-> Str(<<fn>>), symbol |-> sym, apikey |-> API_KEY]
    IN  IF Truthy(extra)
        THEN [k \in DOMAIN base \cup DOMAIN extra.d |->
                 IF k \in DOMAIN extra.d THEN extra.d[k] ELSE base[k]]
        ELSE base

\* what make_alpha_request produces once client.get has produced outcome
make_alpha_request(outcome) == ExceptClauses(outcome, TryBlock(outcome))



----------------------------------------------------------------------------
\* server.py: handle_call_tool

SymbolTools ==
    { "get-stock-quote", "get-company-info", "get-time-series", "get-historical-options",
      "analyze-technical-setup", "analyze-institutional-activity",
      "analyze-futures-trade-setup", "get-timing-edge" }

\* the tools that call make_alpha_request themselves
DataTools ==
    { "get-stock-quote", "get-company-info", "get-crypto-exchange-rate",
      "get-time-series", "get-historical-options" }

ToolNames == SymbolTools \cup {"get-crypto-exchange-rate"}

\* [types.TextContent(type="text", text=text)]
TextResult(text) == Returned(<<[type |-> "text", text |-> text]>>)

\* s.upper(), piece by piece
UpperPiece(piece) ==
    CASE piece = "aapl" -> "AAPL" [] piece = "btc" -> "BTC" [] piece = "eur" -> "EUR"
      [] OTHER -> piece
Upper(v) == Str([i \in 1..Len(v.s) |-> UpperPiece(v.s[i])])

\* float(v) raises: TypeError unless v is a number or a str, ValueError for
\* a str that is no number
FloatRaises(v) ==
    CASE v.t = "num" -> FALSE
      [] v.t = "str" -> ~FloatParses(v.s)
      [] OTHER -> TRUE

\* the statements of a branch before it opens its client end the call with
\* a text, raise, or let the branch go on
Ret(text) == [kind |-> "return", text |-> text]
Rse(type, msg) == [kind |-> "raise", type |-> type, msg |-> msg]
Proceed == [kind |-> "proceed"]

NoUpper == Rse("AttributeError", "object has no attribute 'upper'")

SymbolCheck_Unchecked(args) ==
    LET sym == Get(args.d, "symbol", None)
    IN  IF sym.t # "str" THEN NoUpper ELSE Proceed

\* symbol = arguments.get("symbol"); the test of it; symbol.upper()
SymbolCheck(args) ==
    LET sym == Get(args.d, "symbol", None)
    IN  IF ~Truthy(sym) THEN Ret(<<"Missing symbol parameter">>)
        ELSE IF sym.t # "str" THEN NoUpper
        ELSE Proceed

\* the branch of a registered tool, up to the point where it opens a client
Branch(n, args) ==
    IF n \in SymbolTools
    THEN LET c == SymbolCheck(args)
         IN  IF c.kind # "proceed" \/ n # "analyze-futures-trade-setup" THEN c
             ELSE IF FloatRaises(Get(args.d, "account_value", Num(100000)))
                     \/ FloatRaises(Get(args.d, "leverage", Num(10)))
             THEN Rse("ValueError", "could not convert to float")
             ELSE Proceed
    ELSE LET crypto_symbol == Get(args.d, "crypto_symbol", None)
             market == Get(args.d, "market", Str(<<"USD">>))
         IN  IF ~Truthy(crypto_symbol) THEN Ret(<<"Missing crypto_symbol parameter">>)
             ELSE IF crypto_symbol.t # "str" \/ market.t # "str" THEN NoUpper
             ELSE Proceed

Dispatch_NameDropped(n, args) ==
    IF n \in ToolNames THEN Branch(n, args) ELSE Ret(<<"Unknown tool">>)

\* the if/elif chain over name and its final else
Dispatch(n, args) ==
    IF n \in ToolNames THEN Branch(n, args) ELSE Ret(<<"Unknown tool: ", n>>)

\* handle_call_tool up to the point where a client is opened
Validate(n, args) ==
    IF ~Truthy(args) THEN Ret(<<"Missing arguments for the request">>)
    ELSE Dispatch(n, args)

\* the arguments of the branch's make_alpha_request call
GatewayCall(n, args) ==
    LET sym == Upper(Get(args.d, "symbol", Str(<<>>)))
        date == Get(args.d, "date", None)
    IN  CASE n = "get-stock-quote" ->
               [function |-> "GLOBAL_QUOTE", symbol |-> sym, extra |-> None]
          [] n = "get-company-info" ->
               [function |-> "OVERVIEW", symbol |-> sym, extra |-> None]
          [] n = "get-crypto-exchange-rate" ->
               [function |-> "CURRENCY_EXCHANGE_RATE", symbol |-> None,
                extra |-> Dict([from_currency |-> Upper(args.d["crypto_symbol"]),
                                to_currency |-> Upper(Get(args.d, "market", Str(<<"USD">>)))])]
          [] n = "get-time-series" ->
               [function |-> "TIME_SERIES_DAILY", symbol |-> sym,
                extra |-> Dict([outputsize |->
                                   Get(args.d, "outputsize", Str(<<"compact">>))])]
          [] n = "get-historical-options" ->
               [function |-> "HISTORICAL_OPTIONS", symbol |-> sym,
                extra |-> IF Truthy(date) THEN Dict([date |-> date]) ELSE Dict(EmptyMap)]

\* the name a str argument gives (the key looked up in a contract)
NameOf(v) == IF v.t = "str" /\ Len(v.s) = 1 THEN v.s[1] ELSE "?"

\* the text of a data tool made from the formatter's string
FormattedText(n, args, data) ==
    LET sym == Upper(Get(args.d, "symbol", Str(<<>>))).s
        date == Get(args.d, "date", None)
    IN  CASE n = "get-stock-quote" ->
               <<"Stock quote for ">> \o sym \o <<":\n\n">> \o format_quote(data)
          [] n = "get-company-info" ->
               <<"Company information for ">> \o sym \o <<":\n\n">>
               \o format_company_info(data)
          [] n = "get-crypto-exchange-rate" ->
               <<"Cryptocurrency exchange rate for ">>
               \o Upper(args.d["crypto_symbol"]).s \o <<"/">>
               \o Upper(Get(args.d, "market", Str(<<"USD">>))).s \o <<":\n\n">>
               \o format_crypto_rate(data)
          [] n = "get-time-series" ->
               <<"Time series data for ">> \o sym \o <<":\n\n">>
               \o format_time_series(data)
          [] n = "get-historical-options" ->
               <<"Historical options data for ">> \o sym
               \o (IF Truthy(date) THEN <<" on ">> \o PyStr(date) ELSE <<>>)
               \o <<":\n\n">>
               \o format_historical_options(
                    data,
                    Get(args.d, "limit", Num(10)),
                    NameOf(Get(args.d, "sort_by", Str(<<"strike">>))),
                    NameOf(Get(args.d, "sort_order", Str(<<"asc">>))))

\* the formatter called on whatever make_alpha_request returned
DataToolText_NoFailureTest(n, args, data) == FormattedText(n, args, data)

\* the text of a data tool once make_alpha_request has returned data: a
\* str is a failure and is reported as it is
DataToolText(n, args, data) ==
    IF data.t = "str" THEN <<"Error: ">> \o data.s
    ELSE FormattedText(n, args, data)

\* what the analytics collaborators of a branch do inside its try block:
\* give a report, give a dict holding "error" (analyze_futures_trade_setup
\* only), or raise
CollaboratorOutcomes(n) ==
    IF n = "analyze-futures-trade-setup" THEN {"report", "error", "raise"}
    ELSE {"report", "raise"}

\* the text of an analytics tool, given what its collaborators did
AnalyticsText(n, outcome) ==
    CASE outcome = "report" /\ n = "get-timing-edge" ->
            <<"TIMING EDGE ANALYSIS", "\n", "===================", "\n", "...">>
      [] outcome = "report" -> <<"<formatted report>">>
      [] outcome = "error" -> <<"Error analyzing trade setup: ", "<analysis error>">>
      [] n = "analyze-technical-setup" ->
            <<"Error analyzing technical setup: ", "<str(e)>">>
      [] n = "analyze-institutional-activity" ->
            <<"Error analyzing institutional activity: ", "<str(e)>">>
      [] n = "analyze-futures-trade-setup" ->
            <<"Error analyzing futures trade setup: ", "<str(e)>">>
      [] n = "get-timing-edge" ->
            <<"Error analyzing timing edge: ", "<str(e)>">>

----------------------------------------------------------------------------
\* make_alpha_request called on its own

Statuses == {200, 301, 403, 404, 429, 500}

Bodies == DOMAIN JsonTable \cup {HtmlBody, EmptyBody}

\* what awaiting client.get can produce
Outcomes ==
    { Exc("TimeoutException", "timed out"),
      Exc("ConnectError", "All connection attempts failed"),
      Exc("ReadError", "peer closed connection") }
    \cup { Response(st, body) : st \in Statuses, body \in Bodies }

NoOutcome == [kind |-> "none"]

HIdle ==
    /\ pc = "idle"
    /\ name = ""
    /\ arguments = None
    /\ client = "none"
    /\ requests = <<>>
    /\ upstream = NoOutcome
    /\ result = Returned(<<>>)

OptIdle ==
    /\ opt_pc = "idle"
    /\ options_data = None
    /\ limit = Num(10)
    /\ sort_by = "strike"
    /\ sort_order = "asc"
    /\ formatted_options = <<>>

FmtIdle ==
    /\ fmt_pc = "idle"
    /\ formatter = ""
    /\ fmt_input = None
    /\ fmt_output = <<>>

ConcIdle ==
    /\ invocations = <<>>
    /\ open_clients = {}
    /\ constructed = 0

GwIdle ==
    /\ gw_pc = "idle"
    /\ function = ""
    /\ symbol = None
    /\ additional_params = None
    /\ params = EmptyMap
    /\ response = NoOutcome
    /\ gets = 0
    /\ gw_result = Returned(None)

GwInit ==
    /\ gw_pc = "call"
    /\ function \in {"GLOBAL_QUOTE", "CURRENCY_EXCHANGE_RATE"}
    /\ symbol \in {None, Str(<<"AAPL">>)}
    /\ additional_params \in
          { None,
            Dict(EmptyMap),
            Dict([from_currency |-> Str(<<"BTC">>), to_currency |-> Str(<<"USD">>)]),
            Dict([outputsize |-> Str(<<"compact">>)]),
            Dict([symbol |-> Str(<<"MSFT">>)]) }
    /\ params = EmptyMap
    /\ response = NoOutcome
    /\ gets = 0
    /\ gw_result = Returned(None)
    /\ OptIdle
    /\ HIdle
    /\ FmtIdle
    /\ ConcIdle

\* params is built and the one GET is issued and awaited
ClientGet ==
    /\ gw_pc = "call"
    /\ gw_pc' = "got"
    /\ params' = BuildParams(function, symbol, additional_params)
    /\ gets' = gets + 1
    /\ response' \in Outcomes
    /\ UNCHANGED <<function, symbol, additional_params, gw_result>>
    /\ UNCHANGED <<opt_vars, h_vars, fmt_vars, conc_vars>>

\* the rest of the try block and the except clauses
GatewayReturn ==
    /\ gw_pc = "got"
    /\ gw_pc' = "done"
    /\ gw_result' = make_alpha_request(response)
    /\ UNCHANGED <<function, symbol, additional_params, params, response, gets>>
    /\ UNCHANGED <<opt_vars, h_vars, fmt_vars, conc_vars>>

GwNext == ClientGet \/ GatewayReturn

SpecGateway == GwInit /\ [][GwNext]_vars



----------------------------------------------------------------------------
\* One invocation of handle_call_tool

\* the arguments mapping holding the keys of r that are not left out
Args(r) == Dict([k \in {k \in DOMAIN r : r[k] # Missing} |-> r[k]])

SymbolArgs == {Missing, None, Str(<<>>), Str(<<"aapl">>), Num(5)}

ArgumentMaps ==
    { None, Dict(EmptyMap) }
    \cup { Args(r) : r \in [ symbol : SymbolArgs,
                             account_value : {Missing, Num(50000), Str(<<"lots">>)},
                             leverage : {Missing, None},
                             limit : {Missing, Num(1)},
                             sort_order : {Missing, Str(<<"desc">>)},
                             date : {Missing, Str(<<"2024-01-02">>)} ] }
    \cup { Args(r) : r \in [ crypto_symbol : {Missing, Str(<<"btc">>), Num(5)},
                             market : {Missing, None, Str(<<"eur">>), Num(7)},
                             symbol : {Missing, Str(<<"aapl">>)} ] }

CallNames == ToolNames \cup {"get-news", ""}

HInit ==
    /\ pc = "call"
    /\ name \in CallNames
    /\ arguments \in ArgumentMaps
    /\ client = "none"
    /\ requests = <<>>
    /\ upstream = NoOutcome
    /\ result = Returned(<<>>)
    /\ OptIdle
    /\ GwIdle
    /\ FmtIdle
    /\ ConcIdle

\* handle_call_tool from its first statement to the await inside the
\* async with block of its branch, or to its return or raise before that
CallTool ==
    /\ pc = "call"
    /\ LET v == Validate(name, arguments)
       IN  CASE v.kind = "return" ->
                  /\ pc' = "returned"
                  /\ result' = TextResult(v.text)
                  /\ UNCHANGED <<client, requests>>
             [] v.kind = "raise" ->
                  /\ pc' = "raised"
                  /\ result' = RaisedExc(v.type, v.msg)
                  /\ UNCHANGED <<client, requests>>
             [] v.kind = "proceed" /\ name \in DataTools ->
                  /\ pc' = "awaiting request"
                  /\ client' = "open"
                  /\ LET c == GatewayCall(name, arguments)
                     IN  requests' = Append(requests,
                                            BuildParams(c.function, c.symbol, c.extra))
                  /\ UNCHANGED result
             [] OTHER ->
                  /\ pc' = "awaiting analysis"
                  /\ client' = "open"
                  /\ UNCHANGED <<requests, result>>
    /\ UNCHANGED <<name, arguments, upstream>>
    /\ UNCHANGED <<opt_vars, gw_vars, fmt_vars, conc_vars>>

\* a data tool: client.get completes, make_alpha_request returns, the
\* result is formatted, the async with block is left and the text returned
DataToolReturn ==
    /\ pc = "awaiting request"
    /\ \E outcome \in Outcomes :
          /\ upstream' = outcome
          /\ LET r == make_alpha_request(outcome)
             IN  IF r.raised
                 THEN pc' = "raised" /\ result' = r
                 ELSE /\ pc' = "returned"
                      /\ result' = TextResult(DataToolText(name, arguments, r.value))
    /\ client' = "closed"
    /\ UNCHANGED <<name, arguments, requests>>
    /\ UNCHANGED <<opt_vars, gw_vars, fmt_vars, conc_vars>>

\* an analytics tool: its collaborators finish inside the try block, the
\* async with block is left and the report or the error text returned
AnalyticsReturn ==
    /\ pc = "awaiting analysis"
    /\ \E outcome \in CollaboratorOutcomes(name) :
          result' = TextResult(AnalyticsText(name, outcome))
    /\ pc' = "returned"
    /\ client' = "closed"
    /\ UNCHANGED <<name, arguments, requests, upstream>>
    /\ UNCHANGED <<opt_vars, gw_vars, fmt_vars, conc_vars>>

Next == CallTool \/ DataToolReturn \/ AnalyticsReturn

Init == HInit

Spec == Init /\ [][Next]_vars


----------------------------------------------------------------------------
\* Properties of handle_call_tool

Over == pc \in {"returned", "raised"}

\* C1: every call of handle_call_tool, for any tool name and any argument
\* mapping (None, empty, non-string symbol or market, non-numeric
\* account_value or leverage included), returns a list holding a single
\* text block; no exception leaves the handler.
C1_AlwaysText ==
    Over =>
        /\ ~result.raised
        /\ Len(result.value) = 1
        /\ result.value[1].type = "text"

\* the mapping is absent or empty
NoArguments == arguments = None \/ DOMAIN arguments.d = {}

\* the "symbol" argument is missing from the call
SymbolMissing == arguments = None \/ "symbol" \notin DOMAIN arguments.d

\* C2 as claimed: for every symbol-keyed tool and every argument mapping
\* without "symbol", an empty or absent mapping included, the full text is
\* exactly "Missing symbol parameter" and no upstream request is issued.
C2_MissingSymbol ==
    (Over /\ name \in SymbolTools /\ SymbolMissing) =>
        /\ result = TextResult(<<"Missing symbol parameter">>)
        /\ requests = <<>>
        /\ client = "none"

\* C2 as amended: for every symbol-keyed tool and every non-empty argument
\* mapping without "symbol" the full text is exactly "Missing symbol
\* parameter"; for an empty or absent mapping it is exactly "Missing
\* arguments for the request"; in both cases no client is opened and no
\* upstream request is issued.
C2_MissingSymbolOrArguments ==
    (pc # "call" /\ name \in SymbolTools /\ SymbolMissing) =>
        /\ pc = "returned"
        /\ result = IF NoArguments THEN TextResult(<<"Missing arguments for the request">>)
                    ELSE TextResult(<<"Missing symbol parameter">>)
        /\ requests = <<>>
        /\ client = "none"

C2_Witness ==
    /\ pc = "returned" /\ name = "get-historical-options"
    /\ arguments = Dict([date |-> Str(<<"2024-01-02">>)])
    /\ result.value[1].text = <<"Missing symbol parameter">>
    /\ requests = <<>>

\* C3 as claimed: for every name that is not a registered tool and every
\* argument mapping, None and the empty mapping included, the result is the
\* text "Unknown tool: <name>", returned as a normal text result.
C3_UnknownTool ==
    (Over /\ name \notin ToolNames) => result = TextResult(<<"Unknown tool: ", name>>)

\* C3 as amended: for every name that is not a registered tool and every
\* non-empty argument mapping the result is the text "Unknown tool: <name>";
\* for None or an empty mapping it is "Missing arguments for the request";
\* both are returned as a normal text result.
C3_UnknownToolOrArguments ==
    (pc # "call" /\ name \notin ToolNames) =>
        /\ pc = "returned"
        /\ result = IF NoArguments THEN TextResult(<<"Missing arguments for the request">>)
                    ELSE TextResult(<<"Unknown tool: ", name>>)

C3_Witness ==
    /\ pc = "returned" /\ name = "get-news"
    /\ arguments = Dict([symbol |-> Str(<<"aapl">>)])
    /\ result.value[1].text = <<"Unknown tool: ", "get-news">>

----------------------------------------------------------------------------
\* Properties of make_alpha_request

GotResponse == gw_pc = "done" /\ response.kind = "response"
Is2xx == 200 <= response.status_code /\ response.status_code <= 299

\* C4: a response with status 429 gives the rate-limit failure text and one
\* with status 403 the invalid-key failure text, whatever the body holds;
\* the body text is carried verbatim and is never parsed or returned as data.
C4_StatusFailures ==
    GotResponse =>
        /\ response.status_code = 429 =>
              gw_result = Returned(Str(<<"Rate limit exceeded. Error details: ",
                                         response.text>>))
        /\ response.status_code = 403 =>
              gw_result = Returned(Str(<<"API key invalid or expired. Error details: ",
                                         response.text>>))

C4_Witness ==
    /\ GotResponse /\ response.status_code = 429 /\ response.text = ErrorAndNoteBody
    /\ gw_result.value = Str(<<"Rate limit exceeded. Error details: ", ErrorAndNoteBody>>)

\* C5: a 2xx response whose JSON object holds "Error Message" gives the
\* provider-error text carrying that field's exact text, never the body,
\* also when a frequency note is present; an object with only a frequency
\* note gives the rate-limit warning text; an object with neither field is
\* returned unchanged.
C5_ProviderFields ==
    ( /\ GotResponse /\ Is2xx /\ response.text \in DOMAIN JsonTable
      /\ JsonTable[response.text].t = "dict" ) =>
        LET body == JsonTable[response.text].d
        IN  /\ "Error Message" \in DOMAIN body =>
                  gw_result = Returned(Str(<<"Alpha Vantage API error: ">>
                                           \o body["Error Message"].s))
            /\ ( /\ "Error Message" \notin DOMAIN body
                 /\ "Note" \in DOMAIN body
                 /\ body["Note"].t = "str"
                 /\ \E i \in 1..Len(body["Note"].s) : body["Note"].s[i] = Phrase ) =>
                  gw_result = Returned(Str(<<"Rate limit warning: ">> \o body["Note"].s))
            /\ ("Error Message" \notin DOMAIN body /\ "Note" \notin DOMAIN body) =>
                  gw_result = Returned(Dict(body))

C5_Witness ==
    /\ GotResponse /\ response.status_code = 200 /\ response.text = ErrorAndNoteBody
    /\ gw_result.value = Str(<<"Alpha Vantage API error: ", "Invalid API call.">>)

TimeoutText == Str(<<"Request timed out after 30 seconds. The Alpha Vantage API may be experiencing delays.">>)
ConnectText == Str(<<"Failed to connect to Alpha Vantage API. Please check your internet connection.">>)

\* C6: make_alpha_request never raises; after its single GET it produces
\* exactly one outcome, the parsed body or one failure text: the fixed
\* timeout text for a timeout, the fixed connection text for a connection
\* failure, the HTTP error text for a non-2xx status other than 429 and 403,
\* and the unexpected-error text with str(e) for every other exception.
C6_NeverRaises ==
    gw_pc = "done" =>
        /\ ~gw_result.raised
        /\ gets = 1
        /\ \/ gw_result.value.t = "str"
           \/ /\ GotResponse /\ Is2xx /\ response.text \in DOMAIN JsonTable
              /\ gw_result.value = JsonTable[response.text]
        /\ (response.kind = "exception" /\ response.type = "TimeoutException") =>
              gw_result.value = TimeoutText
        /\ (response.kind = "exception" /\ response.type = "ConnectError") =>
              gw_result.value = ConnectText
        /\ ( /\ response.kind = "exception"
             /\ response.type \notin {"TimeoutException", "ConnectError"} ) =>
              gw_result.value = Str(<<"Unexpected error occurred: ", response.msg>>)
        /\ (GotResponse /\ ~Is2xx /\ response.status_code \notin {429, 403}) =>
              /\ Len(gw_result.value.s) = 4
              /\ gw_result.value.s[1] = "HTTP error occurred: "
              /\ gw_result.value.s[3] = " - Response: "
              /\ gw_result.value.s[4] = response.text
        /\ (GotResponse /\ Is2xx /\ response.text \notin DOMAIN JsonTable) =>
              /\ Len(gw_result.value.s) = 2
              /\ gw_result.value.s[1] = "Unexpected error occurred: "

C6_Witness ==
    /\ gw_pc = "done" /\ response = Response(200, HtmlBody)
    /\ ~gw_result.raised
    /\ gw_result.value.s[1] = "Unexpected error occurred: "

\* C7: the query parameters always hold the operation name and the API
\* key; they hold a symbol entry only if the symbol argument is not None;
\* additional parameters are merged last and override an earlier value of
\* the same key.
C7_QueryParams ==
    gw_pc \in {"got", "done"} =>
        /\ "function" \in DOMAIN params
        /\ "apikey" \in DOMAIN params
        /\ "symbol" \in DOMAIN params =>
              \/ symbol # None
              \/ additional_params.t = "dict" /\ "symbol" \in DOMAIN additional_params.d
        /\ additional_params.t = "dict" =>
              \A k \in DOMAIN additional_params.d : params[k] = additional_params.d[k]

----------------------------------------------------------------------------
\* Inputs of format_historical_options

MaxContracts == 3

StrikeValues ==
    { Num(95), Num(100), Num(105),
      Str(<<"$", "1", "0", "0", "%">>),
      Str(<<"a">>), Str(<<"$", "b">>),
      None, Missing }

\* the i-th contract of a chain, identified by its position in the input
Contract(i, v) ==
    Dict(IF v = Missing THEN [contractID |-> Num(i)]
         ELSE [contractID |-> Num(i), strike |-> v])

Chains ==
    UNION { { [i \in 1..n |-> Contract(i, vals[i])] : vals \in [1..n -> StrikeValues] }
            : n \in 1..MaxContracts }

OptionsPayloads ==
    { Dict([message |-> Str(<<"success">>), data |-> List(chain)]) : chain \in Chains }
    \cup { Dict([message |-> Str(<<"success">>), data |-> List(<<>>)]),
           Dict(EmptyMap),
           Dict([data |-> List(<<Contract(1, Num(95)), Num(7)>>)]),
           Dict([data |-> Num(7)]),
           Dict([k \in {"Error Message"} |-> Str(<<"Invalid API call">>)]),
           List(<<>>) }

Limits == { Num(k) : k \in -2..(MaxContracts + 1) } \cup { Str(<<"5">>) }

OptInit ==
    /\ opt_pc = "call"
    /\ options_data \in OptionsPayloads
    /\ limit \in Limits
    /\ sort_by \in {"strike", "volume"}
    /\ sort_order \in {"asc", "desc"}
    /\ formatted_options = <<>>
    /\ GwIdle
    /\ HIdle
    /\ FmtIdle
    /\ ConcIdle

\* format_historical_options(options_data, limit, sort_by, sort_order)
FormatOptions ==
    /\ opt_pc = "call"
    /\ opt_pc' = "done"
    /\ formatted_options' = format_historical_options(options_data, limit, sort_by, sort_order)
    /\ UNCHANGED <<options_data, limit, sort_by, sort_order>>
    /\ UNCHANGED <<gw_vars, h_vars, fmt_vars, conc_vars>>

OptNext == FormatOptions

SpecOptions == OptInit /\ [][OptNext]_vars

----------------------------------------------------------------------------
\* Reading a report back: what the text shows

\* the pieces that follow each occurrence of label, in order
PiecesAfter(text, label) ==
    LET at == SelectSeq([i \in 1..Len(text) |-> i],
                        LAMBDA i : text[i] = label /\ i < Len(text))
    IN  [k \in 1..Len(at) |-> text[at[k] + 1]]

\* the contract ids rendered (a contract's id is its input position)
RenderedIDs == PiecesAfter(formatted_options, "Contract ID: ")
RenderedCount == Len(PiecesAfter(formatted_options, "Contract Details:\n"))
SuffixCounts == PiecesAfter(formatted_options, "\n... and ")
IsFormattingError == formatted_options[1] = "Error formatting options data: "

\* the call is over and was given a non-empty list of contract dicts
ChainGiven ==
    /\ opt_pc = "done"
    /\ options_data.t = "dict"
    /\ "Error Message" \notin DOMAIN options_data.d
    /\ "data" \in DOMAIN options_data.d
    /\ options_data.d["data"].t = "list"
    /\ options_data.d["data"].l # <<>>
    /\ \A i \in 1..Len(options_data.d["data"].l) : options_data.d["data"].l[i].t = "dict"

InputChain == options_data.d["data"].l
Total == Len(InputChain)

\* the input position a rendered id names
PosOf(id) == CHOOSE i \in 1..Total : ToString(i) = id

\* contract at input position a comes before the one at b in the stable
\* order of the keys k, ascending or descending
ComesBefore(a, b, k(_)) ==
    LET ka == k(a)
        kb == k(b)
        lt(x, y) == IF x.t = "num" THEN x.n < y.n ELSE StrLess(x.s, y.s)
    IN  \/ IF sort_order = "desc" THEN lt(kb, ka) ELSE lt(ka, kb)
        \/ ~lt(ka, kb) /\ ~lt(kb, ka) /\ a < b

\* ids are the first Len(ids) contracts of the stable order of the keys k
FirstOfOrder(ids, k(_)) ==
    /\ \A i \in 1..Len(ids) : \E p \in 1..Total : ToString(p) = ids[i]
    /\ \A i \in 1..(Len(ids) - 1) : ComesBefore(PosOf(ids[i]), PosOf(ids[i + 1]), k)
    /\ \A p \in 1..Total :
          (\A i \in 1..Len(ids) : ids[i] # ToString(p))
          => \A i \in 1..Len(ids) : ComesBefore(PosOf(ids[i]), p, k)

ModelKey(p) == get_sort_key(InputChain[p], sort_by)

\* C8: for a non-empty contract list of size total that is sorted and
\* rendered: limit -1 renders all total contracts in sorted order with no
\* suffix; limit N with 0 <= N < total renders exactly the first N of the
\* sorted order followed by the suffix counting total - N more; limit >=
\* total renders all with no suffix.
C8_Truncation ==
    (ChainGiven /\ limit.t = "num" /\ ~IsFormattingError) =>
        /\ RenderedCount = Len(RenderedIDs)
        /\ FirstOfOrder(RenderedIDs, ModelKey)
        /\ limit.n = -1 => RenderedCount = Total /\ SuffixCounts = <<>>
        /\ (0 <= limit.n /\ limit.n < Total) =>
              /\ RenderedCount = limit.n
              /\ SuffixCounts = <<ToString(Total - limit.n)>>
              /\ formatted_options[Len(formatted_options)] = " more contracts"
        /\ limit.n >= Total => RenderedCount = Total /\ SuffixCounts = <<>>

C8_Witness ==
    /\ ChainGiven /\ limit = Num(2) /\ Total = 3 /\ ~IsFormattingError
    /\ RenderedCount = 2
    /\ SuffixCounts = <<"1">>

\* the sort_by value of the contract at input position p (0 when left out)
SortValue(p) == Get(InputChain[p].d, sort_by, Num(0))

\* the value reads as a number once '$' and '%' are removed
IsNumeric(v) ==
    \/ v.t = "num"
    \/ v.t = "str" /\ FloatParses(SelectSeq(v.s, LAMBDA c : c \notin {"$", "%"}))

NumericKey(p) ==
    LET v == SortValue(p)
    IN  IF v.t = "num" THEN v
        ELSE Num(DigitsVal(SelectSeq(v.s, LAMBDA c : c \notin {"$", "%"})))

RenderedStrikes == PiecesAfter(formatted_options, "Strike: $")

\* C9: contracts are rendered in non-decreasing order of the numeric key of
\* the sort_by field for "asc" and non-increasing order for "desc", a str
\* counting as the number left after removing '$' and '%'; contracts with
\* equal keys keep their input order; strikes [105, 95, 100] by strike
\* ascending are rendered as [95, 100, 105].
C9_SortOrder ==
    /\ (ChainGiven /\ limit.t = "num" /\ \A p \in 1..Total : IsNumeric(SortValue(p))) =>
          /\ ~IsFormattingError
          /\ FirstOfOrder(RenderedIDs, NumericKey)
          /\ limit.n = -1 => RenderedCount = Total
    /\ ( /\ ChainGiven /\ limit = Num(-1) /\ sort_by = "strike" /\ sort_order = "asc"
         /\ InputChain = <<Contract(1, Num(105)), Contract(2, Num(95)), Contract(3, Num(100))>> )
       => RenderedStrikes = <<"95", "100", "105">>

C9_Witness ==
    /\ ChainGiven /\ limit = Num(-1) /\ sort_by = "strike" /\ sort_order = "desc"
    /\ InputChain = <<Contract(1, Num(95)), Contract(2, Str(<<"$", "1", "0", "0", "%">>)),
                      Contract(3, Num(100))>>
    /\ RenderedIDs = <<"2", "3", "1">>

\* the sort_by value is a str that float() rejects after the signs are removed
IsUnparseable(v) == v.t = "str" /\ ~IsNumeric(v)

RawKey(p) == SortValue(p)
StrippedKey(p) == Str(SelectSeq(SortValue(p).s, LAMBDA c : c \notin {"$", "%"}))

AllUnparseable == \A p \in 1..Total : IsUnparseable(SortValue(p))
MixedParseable ==
    /\ \E p \in 1..Total : IsUnparseable(SortValue(p))
    /\ \E p \in 1..Total : IsNumeric(SortValue(p))

\* C10 as claimed: an unparseable str is keyed by its raw, unstripped value,
\* so a list of unparseable strs is rendered in lexicographic order of the
\* original values, and a list mixing parseable and unparseable values
\* still gives a sorted report rather than an error.
C10_RawKeyOrder ==
    (ChainGiven /\ limit.t = "num") =>
        /\ AllUnparseable => ~IsFormattingError /\ FirstOfOrder(RenderedIDs, RawKey)
        /\ MixedParseable => ~IsFormattingError

\* C10 as amended: an unparseable str is keyed by the str left after '$'
\* and '%' are removed, so a list of unparseable strs is rendered in
\* lexicographic order of the stripped values (equal keys in input order);
\* a list mixing parseable and unparseable values gives no report: the
\* comparison raises and the formatting error text is returned.
C10_StrippedKeyOrder ==
    (ChainGiven /\ limit.t = "num") =>
        /\ AllUnparseable => ~IsFormattingError /\ FirstOfOrder(RenderedIDs, StrippedKey)
        /\ MixedParseable =>
              formatted_options = <<"Error formatting options data: ",
                                    "'<' not supported between instances">>

C10_Witness ==
    /\ ChainGiven /\ limit = Num(-1) /\ sort_by = "strike" /\ sort_order = "asc"
    /\ InputChain = <<Contract(1, Str(<<"$", "b">>)), Contract(2, Str(<<"a">>))>>
    /\ RenderedIDs = <<"2", "1">>

----------------------------------------------------------------------------
\* Inputs of the format functions

Formatters ==
    { "format_quote", "format_company_info", "format_crypto_rate",
      "format_time_series", "format_historical_options" }

\* the key under which each formatter looks for its data; "" where the
\* formatter reads the fields of its argument directly
ContainerOf(f) ==
    CASE f = "format_quote" -> "Global Quote"
      [] f = "format_crypto_rate" -> "Realtime Currency Exchange Rate"
      [] f = "format_time_series" -> "Time Series (Daily)"
      [] f = "format_historical_options" -> "data"
      [] f = "format_company_info" -> ""

\* d with key k set to v
WithKey(d, k, v) == [x \in DOMAIN d \cup {k} |-> IF x = k THEN v ELSE d[x]]

\* one field of each formatter's data, as the provider sends it
SampleFields(f) ==
    CASE f = "format_quote" ->
           { Dict([k \in {"05. price"} |-> Str(<<"189.50">>)]),
             Dict([k \in {"05. price", "06. volume"} |->
                     IF k = "05. price" THEN Str(<<"189.50">>) ELSE Num(1200)]) }
      [] f = "format_crypto_rate" ->
           { Dict([k \in {"5. Exchange Rate"} |-> Str(<<"64000">>)]) }
      [] f = "format_time_series" ->
           { OrderedDict(<<"2024-01-02">>,
                         [d \in {"2024-01-02"} |->
                             Dict([k \in {"4. close"} |-> Str(<<"185">>)])]) }
      [] f = "format_historical_options" ->
           { List(<<Contract(1, Num(95))>>),
             List(<<Contract(1, Num(105)), Contract(2, Num(95))>>) }
      [] f = "format_company_info" -> {}

\* what may stand under the container key: nothing (Missing), an empty or
\* null value, the data, or a value of another type
ContainerValues(f) ==
    { Missing, Dict(EmptyMap), List(<<>>), Str(<<>>), None, Num(0),
      Num(7), Str(<<"maintenance">>), List(<<Num(1)>>) }
    \cup SampleFields(f)

\* the other top-level keys of a payload
OtherKeys ==
    { EmptyMap,
      [k \in {"Error Message"} |-> Str(<<"Invalid API call">>)],
      [k \in {"Information"} |-> Str(<<"premium endpoint">>)],
      [k \in {"message"} |-> Str(<<"success">>)] }

ContainerPayloads(f) ==
    { Dict(IF c = Missing THEN rest ELSE WithKey(rest, ContainerOf(f), c)) :
        c \in ContainerValues(f), rest \in OtherKeys }

\* values that are no mapping at all
NonMappings == { None, List(<<>>), List(<<Num(1)>>), Str(<<>>), Str(<<"maintenance">>), Num(0), Num(5) }

\* company overviews: any subset of three of the seven fields, other keys
\* aside
CompanyFieldNames ==
    <<"Name", "Sector", "Industry", "MarketCapitalization", "Description",
      "Exchange", "Currency">>

CompanyPayloads ==
    { Dict([k \in present \cup other |-> IF k = "MarketCapitalization" THEN Num(3000)
                                          ELSE Str(<<"value of ", k>>)]) :
        present \in SUBSET {"Name", "MarketCapitalization", "Currency"},
        other \in { {}, {"Symbol"}, {"Information"} } }
    \cup { Dict([k \in { CompanyFieldNames[i] : i \in 1..Len(CompanyFieldNames) } |->
                   Str(<<"value of ", k>>)]) }

\* the largest number of dates in a time series
MaxDates == 6

\* the i-th trading day
Date(i) == "2024-01-" \o ToString(10 + i)

\* the orders in which n dates may arrive: most recent first, rotated, and
\* each of these reversed
DateOrders(n) ==
    LET rotated == { [i \in 1..n |-> Date(((n - i + r) % n) + 1)] : r \in 0..(n - 1) }
    IN  rotated \cup { [i \in 1..n |-> q[n + 1 - i]] : q \in rotated }

\* the values of one day: all five, only the close, or no mapping
DayValues(date, shape) ==
    CASE shape = "full" ->
           Dict([k \in {"1. open", "2. high", "3. low", "4. close", "5. volume"} |->
                   Str(<<k, " of ", date>>)])
      [] shape = "close" -> Dict([k \in {"4. close"} |-> Str(<<"close of ", date>>)])
      [] shape = "text" -> Str(<<"holiday">>)

\* the shapes of the days of a series of n dates: all full, or one day
\* (the first or the last sent) partial or no mapping
DayShapes(n) ==
    { [i \in 1..n |-> "full"] }
    \cup { [i \in 1..n |-> IF i = p THEN shape ELSE "full"] :
             p \in {1, n}, shape \in {"close", "text"} }

TimeSeriesOf(keys, shapes) ==
    OrderedDict(keys,
                [d \in { keys[i] : i \in 1..Len(keys) } |->
                    DayValues(d, shapes[CHOOSE i \in 1..Len(keys) : keys[i] = d])])

MetaDataValues ==
    { Missing,
      Dict(EmptyMap),
      Dict([k \in {"2. Symbol"} |-> Str(<<"AAPL">>)]),
      Dict([k \in {"2. Symbol", "3. Last Refreshed"} |->
              IF k = "2. Symbol" THEN Str(<<"AAPL">>) ELSE Str(<<"2024-01-16">>)]),
      Str(<<"maintenance">>) }

TimeSeriesPayloads ==
    { Dict(IF m = Missing
           THEN [k \in {"Time Series (Daily)"} |-> TimeSeriesOf(ks[1], ks[2])]
           ELSE [k \in {"Meta Data", "Time Series (Daily)"} |->
                   IF k = "Meta Data" THEN m ELSE TimeSeriesOf(ks[1], ks[2])]) :
        m \in MetaDataValues,
        ks \in UNION { DateOrders(n) \X DayShapes(n) : n \in 1..MaxDates } }

InputsOf(f) ==
    NonMappings
    \cup (IF f = "format_company_info"
          THEN CompanyPayloads \cup { Dict(EmptyMap) }
          ELSE ContainerPayloads(f))
    \cup (IF f = "format_time_series" THEN TimeSeriesPayloads ELSE {})

----------------------------------------------------------------------------
\* A format function called on its own

\* the call the handler makes; format_historical_options with the
\* defaults of its signature
ApplyFormatter(f, x) ==
    CASE f = "format_quote" -> format_quote(x)
      [] f = "format_company_info" -> format_company_info(x)
      [] f = "format_crypto_rate" -> format_crypto_rate(x)
      [] f = "format_time_series" -> format_time_series(x)
      [] f = "format_historical_options" ->
           format_historical_options(x, Num(10), "strike", "asc")

FmtInit ==
    /\ fmt_pc = "call"
    /\ formatter \in Formatters
    /\ fmt_input \in InputsOf(formatter)
    /\ fmt_output = <<>>
    /\ OptIdle
    /\ GwIdle
    /\ HIdle
    /\ ConcIdle

Format ==
    /\ fmt_pc = "call"
    /\ fmt_pc' = "done"
    /\ fmt_output' = ApplyFormatter(formatter, fmt_input)
    /\ UNCHANGED <<formatter, fmt_input>>
    /\ UNCHANGED <<opt_vars, gw_vars, h_vars, conc_vars>>

FmtNext == Format

SpecFormatters == FmtInit /\ [][FmtNext]_vars

Formatted == fmt_pc = "done"

----------------------------------------------------------------------------
\* Properties of the format functions

ContainerFormatters ==
    { "format_quote", "format_crypto_rate", "format_time_series",
      "format_historical_options" }

NoDataText(f) ==
    CASE f = "format_quote" -> "No quote data available in the response"
      [] f = "format_crypto_rate" -> "No exchange rate data available in the response"
      [] f = "format_time_series" -> "No time series data available in the response"
      [] f = "format_historical_options" -> "No options data available in the response"
      [] f = "format_company_info" -> "No company information available in the response"

ErrorFormattingText(f) ==
    CASE f = "format_quote" -> "Error formatting quote data: "
      [] f = "format_crypto_rate" -> "Error formatting cryptocurrency data: "
      [] f = "format_time_series" -> "Error formatting time series data: "
      [] f = "format_historical_options" -> "Error formatting options data: "
      [] f = "format_company_info" -> "Error formatting company data: "

IsMapping(v) == v.t = "dict"

\* an empty mapping, list or string
IsEmpty(v) ==
    \/ v.t = "dict" /\ DOMAIN v.d = {}
    \/ v.t = "list" /\ v.l = <<>>
    \/ v.t = "str" /\ v.s = <<>>

\* the formatter's container is not in the input mapping, or is empty
ContainerAbsentOrEmpty ==
    /\ IsMapping(fmt_input)
    /\ \/ ContainerOf(formatter) \notin DOMAIN fmt_input.d
       \/ IsEmpty(fmt_input.d[ContainerOf(formatter)])

\* the container is there and holds something, but is no mapping (no list
\* for the options chain): reading it fails inside the formatter
ContainerOfWrongType ==
    /\ IsMapping(fmt_input)
    /\ ContainerOf(formatter) \in DOMAIN fmt_input.d
    /\ LET c == fmt_input.d[ContainerOf(formatter)]
       IN  /\ c.t \in {"num", "str", "list", "dict"}
           /\ ~IsEmpty(c)
           /\ c # Num(0)
           /\ c.t # (IF formatter = "format_historical_options" THEN "list" ELSE "dict")

HasProviderError == IsMapping(fmt_input) /\ "Error Message" \in DOMAIN fmt_input.d

\* the formatter returned a str: a text made of pieces, and did not raise
ReturnedText == fmt_output \in Seq(STRING) /\ Len(fmt_output) > 0

ReportsFormattingError ==
    /\ Len(fmt_output) = 2
    /\ fmt_output[1] = ErrorFormattingText(formatter)

\* C11 as stated: for the quote, crypto-rate, time-series and
\* historical-options formatters, every input whose expected container is
\* absent or empty yields the formatter's "No ... data available in the
\* response" message; no formatter raises, and an exception inside a
\* formatter comes back as "Error formatting ... data: <message>".
C11_NoData ==
    Formatted =>
        /\ ReturnedText
        /\ formatter \in ContainerFormatters /\ ContainerAbsentOrEmpty =>
              fmt_output = <<NoDataText(formatter)>>
        /\ formatter \in ContainerFormatters
             /\ (~IsMapping(fmt_input) \/ (ContainerOfWrongType /\ ~HasProviderError)) =>
              ReportsFormattingError

\* C11, amended: as C11, except that the historical-options formatter
\* looks for an "Error Message" field before it looks for its container:
\* an input mapping that carries one yields "Error: <that message>",
\* whether or not the container is there. For every other input mapping
\* whose container is absent or empty the "No ... data available in the
\* response" message is returned; no formatter raises; inputs that are no
\* mapping, or whose container is of the wrong type, yield "Error
\* formatting ... data: <message>".
C11_NoDataUnlessProviderError ==
    Formatted =>
        /\ ReturnedText
        /\ formatter \in ContainerFormatters /\ ContainerAbsentOrEmpty
             /\ ~(formatter = "format_historical_options" /\ HasProviderError) =>
              fmt_output = <<NoDataText(formatter)>>
        /\ formatter = "format_historical_options" /\ HasProviderError =>
              fmt_output = <<"Error: ">> \o PyStr(fmt_input.d["Error Message"])
        /\ formatter \in ContainerFormatters
             /\ (~IsMapping(fmt_input)
                 \/ (ContainerOfWrongType
                     /\ ~(formatter = "format_historical_options" /\ HasProviderError))) =>
              ReportsFormattingError

\* an empty options list gave exactly the no-options message
C11_Witness ==
    /\ Formatted
    /\ formatter = "format_historical_options"
    /\ fmt_input = Dict([message |-> Str(<<"success">>), data |-> List(<<>>)])
    /\ fmt_output = <<"No options data available in the response">>

CompanyLabels ==
    <<"Name: ", "Sector: ", "Industry: ", "Market Cap: $", "Description: ",
      "Exchange: ", "Currency: ">>

\* the seven lines and the closing rule, a field that is absent shown as N/A
CompanyBlock(d) ==
    Concat([i \in 1..Len(CompanyLabels) |->
              <<CompanyLabels[i]>>
              \o (IF CompanyFieldNames[i] \in DOMAIN d
                  THEN PyStr(d[CompanyFieldNames[i]])
                  ELSE <<"N/A">>)
              \o <<"\n">>])
    \o <<"---">>

CompanyFormatted == Formatted /\ formatter = "format_company_info"

\* C12 as stated: format_company_info has no missing-container case: every
\* input mapping, the empty one included, is rendered as the block of
\* name, sector, industry, market cap, description, exchange and currency
\* lines, each absent field shown as N/A.
C12_AlwaysBlock ==
    CompanyFormatted /\ IsMapping(fmt_input) =>
        fmt_output = CompanyBlock(fmt_input.d)

\* C12, amended: every non-empty input mapping is rendered as the block of
\* seven lines, each absent field shown as N/A (a mapping holding none of
\* the seven fields renders all seven as N/A); the empty mapping is not
\* rendered: it yields "No company information available in the response".
C12_BlockUnlessEmpty ==
    CompanyFormatted /\ IsMapping(fmt_input) =>
        IF DOMAIN fmt_input.d = {}
        THEN fmt_output = <<"No company information available in the response">>
        ELSE fmt_output = CompanyBlock(fmt_input.d)

\* a non-empty overview holding none of the seven fields was rendered, all
\* seven as N/A
C12_Witness ==
    /\ CompanyFormatted
    /\ IsMapping(fmt_input)
    /\ DOMAIN fmt_input.d = {"Symbol"}
    /\ fmt_output = CompanyBlock(EmptyMap)
    /\ Len(SelectSeq(fmt_output, LAMBDA piece : piece = "N/A")) = Len(CompanyLabels)

\* the series of the input and its dates in the order the provider sent
\* them
SeriesGiven ==
    /\ formatter = "format_time_series"
    /\ IsMapping(fmt_input)
    /\ "Time Series (Daily)" \in DOMAIN fmt_input.d
    /\ "order" \in DOMAIN fmt_input.d["Time Series (Daily)"]

SeriesOrder == fmt_input.d["Time Series (Daily)"].order

\* the metadata is a mapping or is left out, and each of the first five
\* entries is a mapping
SeriesWellFormed ==
    /\ SeriesGiven
    /\ "Meta Data" \in DOMAIN fmt_input.d => IsMapping(fmt_input.d["Meta Data"])
    /\ \A i \in 1..Len(SeriesOrder) :
          i <= 5 => IsMapping(fmt_input.d["Time Series (Daily)"].d[SeriesOrder[i]])

\* a metadata value as the header shows it
MetaDataShown(k) ==
    IF "Meta Data" \in DOMAIN fmt_input.d /\ k \in DOMAIN fmt_input.d["Meta Data"].d
    THEN PyStr(fmt_input.d["Meta Data"].d[k])
    ELSE <<"Unknown">>

HeaderLine ==
    <<"Time Series Data for ">> \o MetaDataShown("2. Symbol")
    \o <<" (Last Refreshed: ">> \o MetaDataShown("3. Last Refreshed") \o <<")\n\n">>

RenderedDates == PiecesAfter(fmt_output, "Date: ")

Occurrences(text, piece) == Len(SelectSeq(text, LAMBDA x : x = piece))

\* what follows the header line
AfterHeader == SubSeq(fmt_output, Len(HeaderLine) + 1, Len(fmt_output))

----------------------------------------------------------------------------
\* Several invocations of handle_call_tool interleaved on the event loop

\* the number of invocations in progress together
NumInvocations == 2

Invocation == 1..NumInvocations

\* the calls made: a data tool, two analytics tools and a name that is no
\* tool, with arguments that pass the checks, are missing, or make the
\* branch raise before its async with block is entered
ConcCalls ==
    { [name |-> "get-stock-quote", arguments |-> Args([symbol |-> Str(<<"aapl">>)])],
      [name |-> "get-stock-quote", arguments |-> None],
      [name |-> "get-stock-quote", arguments |-> Args([symbol |-> Num(5)])],
      [name |-> "analyze-technical-setup",
       arguments |-> Args([symbol |-> Str(<<"aapl">>)])],
      [name |-> "analyze-futures-trade-setup",
       arguments |-> Args([symbol |-> Str(<<"aapl">>), account_value |-> Num(50000)])],
      [name |-> "analyze-futures-trade-setup",
       arguments |-> Args([symbol |-> Str(<<"aapl">>),
                           account_value |-> Str(<<"lots">>)])],
      [name |-> "get-news", arguments |-> Args([symbol |-> Str(<<"aapl">>)])] }

\* what the upstream may answer an invocation: no answer in time, a server
\* error, a quote, a provider error and a body that is no mapping
ConcOutcomes ==
    { Exc("TimeoutException", "timed out"),
      Response(500, HtmlBody),
      Response(200, QuoteBody),
      Response(200, ErrorBody),
      Response(200, ListBody) }

\* httpx.AsyncClient(): the client objects are numbered as constructed;
\* __aenter__ opens the new one
AEnter(clients, c) == clients \cup {c}

\* an exit of the async with block that leaves the client open
AExit_Leak(clients, c) == clients

\* __aexit__ of the async with block, run on return and on exception alike:
\* the block's client is closed
AExit(clients, c) == clients \ {c}

\* the path a data tool took through its async with block
DataPath(n, args, r) ==
    IF r.raised THEN "gateway raised"
    ELSE IF r.value.t = "str" THEN "gateway failure"
    ELSE LET text == DataToolText(n, args, r.value)
         IN  IF \E i \in 1..Len(text) : \E f \in Formatters :
                   text[i] = ErrorFormattingText(f)
             THEN "formatter error"
             ELSE "structured result"

\* the path an analytics tool took through its try block
AnalyticsPath(outcome) ==
    CASE outcome = "report" -> "report"
      [] outcome = "error" -> "analysis error"
      [] outcome = "raise" -> "collaborator raised"

ConcInit ==
    /\ invocations \in
          [Invocation -> { [pc |-> "call", name |-> c.name, arguments |-> c.arguments,
                            client |-> 0, path |-> ""] : c \in ConcCalls }]
    /\ open_clients = {}
    /\ constructed = 0
    /\ OptIdle
    /\ GwIdle
    /\ HIdle
    /\ FmtIdle

\* invocation i runs from its first statement to the first await inside its
\* async with block, or to its return or raise before that block
Start(i) ==
    /\ invocations[i].pc = "call"
    /\ LET inv == invocations[i]
           v == Validate(inv.name, inv.arguments)
       IN  CASE v.kind = "return" ->
                  /\ invocations' = [invocations EXCEPT ![i].pc = "returned",
                                                        ![i].path = "early return"]
                  /\ UNCHANGED <<open_clients, constructed>>
             [] v.kind = "raise" ->
                  /\ invocations' = [invocations EXCEPT ![i].pc = "raised",
                                                        ![i].path = "raised before the block"]
                  /\ UNCHANGED <<open_clients, constructed>>
             [] OTHER ->
                  /\ constructed' = constructed + 1
                  /\ open_clients' = AEnter(open_clients, constructed + 1)
                  /\ invocations' =
                        [invocations EXCEPT
                           ![i].pc = IF inv.name \in DataTools THEN "awaiting request"
                                     ELSE "awaiting analysis",
                           ![i].client = constructed + 1]
    /\ UNCHANGED <<opt_vars, gw_vars, h_vars, fmt_vars>>

\* invocation i of a data tool is resumed: make_alpha_request returns, the
\* failure or the formatted text is returned and the block is left
DataToolResume(i) ==
    /\ invocations[i].pc = "awaiting request"
    /\ \E outcome \in ConcOutcomes :
          LET inv == invocations[i]
              r == make_alpha_request(outcome)
          IN  invocations' =
                 [invocations EXCEPT
                    ![i].pc = IF r.raised THEN "raised" ELSE "returned",
                    ![i].path = DataPath(inv.name, inv.arguments, r)]
    /\ open_clients' = AExit(open_clients, invocations[i].client)
    /\ UNCHANGED constructed
    /\ UNCHANGED <<opt_vars, gw_vars, h_vars, fmt_vars>>

\* invocation i of an analytics tool is resumed: its collaborators finish
\* or raise, the block is left and the except clause or the return follows
AnalyticsResume(i) ==
    /\ invocations[i].pc = "awaiting analysis"
    /\ \E outcome \in CollaboratorOutcomes(invocations[i].name) :
          invocations' = [invocations EXCEPT ![i].pc = "returned",
                                             ![i].path = AnalyticsPath(outcome)]
    /\ open_clients' = AExit(open_clients, invocations[i].client)
    /\ UNCHANGED constructed
    /\ UNCHANGED <<opt_vars, gw_vars, h_vars, fmt_vars>>

StartSome == \E i \in Invocation : Start(i)
DataToolResumeSome == \E i \in Invocation : DataToolResume(i)
AnalyticsResumeSome == \E i \in Invocation : AnalyticsResume(i)

ConcNext == StartSome \/ DataToolResumeSome \/ AnalyticsResumeSome

SpecConcurrent == ConcInit /\ [][ConcNext]_vars

----------------------------------------------------------------------------
\* Properties of the HTTP clients

InvocationOver(i) == invocations[i].pc \in {"returned", "raised"}

Acquired(i) == invocations[i].client # 0

\* C14: every invocation that acquired an HTTP client has released that
\* client by the time it returns, on every path (structured result,
\* gateway failure, formatter error, exception in an analytics
\* collaborator); no client is held by two invocations; once all the
\* interleaved invocations have returned, no client is open.
C14_ClientsReleased ==
    invocations # <<>> =>
        /\ \A i \in Invocation :
              /\ InvocationOver(i) /\ Acquired(i) =>
                    invocations[i].client \notin open_clients
              /\ ~InvocationOver(i) /\ Acquired(i) =>
                    invocations[i].client \in open_clients
        /\ \A i, j \in Invocation :
              i # j /\ Acquired(i) /\ Acquired(j) =>
                 invocations[i].client # invocations[j].client
        /\ (\A i \in Invocation : InvocationOver(i)) => open_clients = {}

\* invocation 2 constructed the first client and invocation 1 the second;
\* invocation 1 returned a formatter error, invocation 2 returned after a
\* collaborator raised, and both clients are closed
C14_Witness ==
    /\ invocations # <<>>
    /\ invocations[1].path = "formatter error"
    /\ invocations[2].path = "collaborator raised"
    /\ invocations[1].client = 2
    /\ invocations[2].client = 1
    /\ \A i \in Invocation : InvocationOver(i)
    /\ open_clients = {}

----------------------------------------------------------------------------
\* Properties of the upstream requests of one invocation

\* what make_alpha_request made of the upstream's answer
GatewayValue == make_alpha_request(upstream).value

UpstreamFailed ==
    /\ upstream # NoOutcome
    /\ ~make_alpha_request(upstream).raised
    /\ GatewayValue.t = "str"

\* C15: no retries. An invocation of a data tool issues at most one
\* upstream request, the one GET of its one make_alpha_request call; when
\* that request fails, the invocation returns "Error: <failure message>"
\* with no second request and no formatter output in the text.
C15_NoRetries ==
    name \in DataTools =>
        /\ Len(requests) <= 1
        /\ pc = "awaiting request" => Len(requests) = 1
        /\ Over /\ UpstreamFailed =>
              /\ Len(requests) = 1
              /\ result = TextResult(<<"Error: ">> \o GatewayValue.s)
              /\ upstream = Exc("TimeoutException", "timed out") =>
                    result.value[1].text = <<"Error: ">> \o TimeoutText.s
              /\ \A f \in Formatters :
                    /\ Occurrences(result.value[1].text, ErrorFormattingText(f)) = 0
                    /\ Occurrences(result.value[1].text, NoDataText(f)) = 0

\* the one request of a quote timed out and the timeout text was reported
C15_Witness ==
    /\ pc = "returned"
    /\ name = "get-stock-quote"
    /\ upstream = Exc("TimeoutException", "timed out")
    /\ Len(requests) = 1
    /\ result.value[1].text = <<"Error: ">> \o TimeoutText.s

----------------------------------------------------------------------------
\* Properties of the contract count of format_historical_options

\* the contracts of the input that were not rendered
Omitted == Total - RenderedCount

\* C16: for every non-empty contract list of size total and every integer
\* limit, limit < -1 and limit = 0 included, the number of contracts
\* rendered plus the count K stated in the "... and K more contracts"
\* suffix (K = 0 when there is no suffix) is total, so K is never larger
\* than the number of contracts left out.
C16_Accounting ==
    (ChainGiven /\ limit.t = "num" /\ ~IsFormattingError) =>
        IF SuffixCounts = <<>>
        THEN Omitted = 0
        ELSE SuffixCounts = <<ToString(Omitted)>>

====
